---- MODULE Spec2Model ----
(***************************************************************************)
(* Model of the analysis scripts of rest_trace_fuzzer:                     *)
(*   scripts/compare_callinfo_graph.py      load_edges, compare_coverage   *)
(*   scripts/test_process_visualize.py      extract_test_scenarios,        *)
(*                                          plot_graphs, main              *)
(*   scripts/CoSREST/convert_sisp_to_dict.py  extract_valid_samples        *)
(* JSON objects are records whose DOMAIN is the set of keys present, JSON  *)
(* lists are sequences.  A Python exception is a result whose status names *)
(* the exception and that carries no value.                                *)
(***************************************************************************)
EXTENDS Integers, Sequences, FiniteSets, TLC

VARIABLES
    file1, file2,      \* compare_callinfo_graph: the two parsed report files
    loaded,            \* result of a load_edges call on file1
    diff12,            \* compare_coverage(file1, file2), first process
    diff21,            \* compare_coverage(file2, file1), same process
    rerun12,           \* compare_coverage(file1, file2), a second process
    logs,              \* test_process_visualize: the lines of the log file
    extracted,         \* result of extract_test_scenarios(logs)
    mainOut,           \* outcome of main(log_file)
    data,              \* convert_sisp_to_dict: the parsed input list
    written            \* outcome of extract_valid_samples

vars == <<file1, file2, loaded, diff12, diff21, rerun12,
          logs, extracted, mainOut, data, written>>

\* A call that has not been made yet.
NotRun == [status |-> "not_run"]

\* A compare_coverage call that has not been made yet; once made, the
\* variable holds the hash seed of the calling process and what it returned.
NotCompared == [out |-> NotRun]

\* All sequences over S of length at most n.
SeqUpTo(S, n) == UNION {[1..k -> S] : k \in 0..n}

(***************************************************************************)
(* Bounds of the explored inputs.                                          *)
(***************************************************************************)
MaxEdges == 2
MaxEdges2 == 1
MaxLines == 3
MaxEntries == 2
MaxDefs == 3

(***************************************************************************)
(* compare_callinfo_graph.py                                               *)
(***************************************************************************)
\* Endpoint descriptors as they occur in a report ("source" / "target").
DA == [serviceName |-> "S1", simpleAPIMethod |-> [endpoint |-> "/a", method |-> "GET"]]
\* Same identity as DA, with an additional descriptive field.
DAx == [serviceName |-> "S1", simpleAPIMethod |-> [endpoint |-> "/a", method |-> "GET"],
        description |-> "x"]
DB == [serviceName |-> "S2", simpleAPIMethod |-> [endpoint |-> "/b", method |-> "POST"]]
DT == [serviceName |-> "S3", simpleAPIMethod |-> [endpoint |-> "/d", method |-> "GET"]]
\* Malformed descriptors: a missing serviceName, a missing method.
DNoService == [simpleAPIMethod |-> [endpoint |-> "/a", method |-> "GET"]]
DNoMethod == [serviceName |-> "S1", simpleAPIMethod |-> [endpoint |-> "/a"]]

\* edge.get('hitCount', 0)
HitCountOf(edge) == IF "hitCount" \in DOMAIN edge THEN edge.hitCount ELSE 0

\* The six subscript chains of lines 43-48 all succeed (no KeyError).
HasDescriptor(edge, side) ==
    /\ side \in DOMAIN edge
    /\ "serviceName" \in DOMAIN edge[side]
    /\ "simpleAPIMethod" \in DOMAIN edge[side]
    /\ "endpoint" \in DOMAIN edge[side].simpleAPIMethod
    /\ "method" \in DOMAIN edge[side].simpleAPIMethod

HasIdentity(edge) == HasDescriptor(edge, "source") /\ HasDescriptor(edge, "target")

\* The tuple built at lines 42-49.
EdgeKey(edge) ==
    << edge.source.serviceName,
       edge.source.simpleAPIMethod.endpoint,
       edge.source.simpleAPIMethod.method,
       edge.target.serviceName,
       edge.target.simpleAPIMethod.endpoint,
       edge.target.simpleAPIMethod.method >>

\* The value stored at lines 50-53.
EdgeDetail(edge) == [source |-> edge.source, target |-> edge.target]

\* Variant: the comparison of line 41 written >= 0.
IsCoveredOrZero(edge) == HitCountOf(edge) >= 0

\* The test of line 41.
IsCovered(edge) == HitCountOf(edge) > 0

\* Variant: an existing entry is kept (setdefault instead of assignment).
DictPutKeepFirst(d, k, v) ==
    [x \in (DOMAIN d) \cup {k} |-> IF x \in DOMAIN d THEN d[x] ELSE v]

\* covered_edges[edge_key] = ... : insert or overwrite.
DictPut(d, k, v) == [x \in (DOMAIN d) \cup {k} |-> IF x = k THEN v ELSE d[x]]

\* Variant: the key is computed before the hit count is tested.
RECURSIVE LoadLoopKeyFirst(_, _, _)
LoadLoopKeyFirst(edges, i, covered) ==
    IF i > Len(edges) THEN [status |-> "ok", covered |-> covered]
    ELSE IF ~HasIdentity(edges[i]) THEN [status |-> "KeyError"]
    ELSE IF ~IsCovered(edges[i]) THEN LoadLoopKeyFirst(edges, i + 1, covered)
    ELSE LoadLoopKeyFirst(edges, i + 1,
                          DictPut(covered, EdgeKey(edges[i]), EdgeDetail(edges[i])))

\* The loop of lines 40-53 from record i on, covered being the dict so far.
RECURSIVE LoadLoop(_, _, _)
LoadLoop(edges, i, covered) ==
    IF i > Len(edges) THEN [status |-> "ok", covered |-> covered]
    ELSE IF ~IsCovered(edges[i]) THEN LoadLoop(edges, i + 1, covered)
    ELSE IF ~HasIdentity(edges[i]) THEN [status |-> "KeyError"]
    ELSE LoadLoop(edges, i + 1,
                  DictPut(covered, EdgeKey(edges[i]), EdgeDetail(edges[i])))

\* load_edges on the parsed content of a report file.
LoadEdges(report) ==
    IF \/ "finalCallInfoGraph" \notin DOMAIN report
       \/ "edges" \notin DOMAIN report.finalCallInfoGraph
    THEN [status |-> "KeyError"]
    ELSE LoadLoop(report.finalCallInfoGraph.edges, 1, << >>)

\* The keys the explored reports can produce.
KeyUniverse == {EdgeKey([source |-> s, target |-> DT]) : s \in {DA, DB}}

\* Iteration order of a Python set of tuples of strings: it follows the
\* strings' hashes, which are salted per process (PYTHONHASHSEED).  A seed
\* is the order in which one process enumerates the keys.
HashSeeds ==
    {s \in [1..Cardinality(KeyUniverse) -> KeyUniverse] :
        \A i, j \in DOMAIN s : s[i] = s[j] => i = j}

\* list(a set S) in a process whose hash seed is seed.
RECURSIVE IterateFrom(_, _, _)
IterateFrom(seed, S, i) ==
    IF i > Len(seed) THEN << >>
    ELSE (IF seed[i] \in S THEN <<seed[i]>> ELSE << >>) \o IterateFrom(seed, S, i + 1)

SetIteration(seed, S) == IterateFrom(seed, S, 1)

\* [d[k] for k in keys]
Lookup(d, keys) == [i \in 1..Len(keys) |-> d[keys[i]]]

\* Variant: an edge of one report is dropped only when the other report
\* holds the same key with the same detail.
CompareCoverageByDetail(a, b, seed) ==
    LET covered1 == LoadEdges(a)
        covered2 == LoadEdges(b)
    IN  IF covered1.status # "ok" THEN [status |-> covered1.status]
        ELSE IF covered2.status # "ok" THEN [status |-> covered2.status]
        ELSE LET c1 == covered1.covered
                 c2 == covered2.covered
                 only_in_1_keys == {k \in DOMAIN c1 : k \notin DOMAIN c2 \/ c2[k] # c1[k]}
                 only_in_2_keys == {k \in DOMAIN c2 : k \notin DOMAIN c1 \/ c1[k] # c2[k]}
             IN  [status |-> "ok",
                  only_in_1 |-> Lookup(c1, SetIteration(seed, only_in_1_keys)),
                  only_in_2 |-> Lookup(c2, SetIteration(seed, only_in_2_keys))]

\* Variant: the second difference is not taken (all keys of the second report).
CompareCoverageNoSubtract(a, b, seed) ==
    LET covered1 == LoadEdges(a)
        covered2 == LoadEdges(b)
    IN  IF covered1.status # "ok" THEN [status |-> covered1.status]
        ELSE IF covered2.status # "ok" THEN [status |-> covered2.status]
        ELSE LET only_in_1_keys == (DOMAIN covered1.covered) \ (DOMAIN covered2.covered)
                 only_in_2_keys == DOMAIN covered2.covered
             IN  [status |-> "ok",
                  only_in_1 |-> Lookup(covered1.covered, SetIteration(seed, only_in_1_keys)),
                  only_in_2 |-> Lookup(covered2.covered, SetIteration(seed, only_in_2_keys))]

\* compare_coverage(a, b) in a process with the given hash seed.
CompareCoverage(a, b, seed) ==
    LET covered1 == LoadEdges(a)
        covered2 == LoadEdges(b)
    IN  IF covered1.status # "ok" THEN [status |-> covered1.status]
        ELSE IF covered2.status # "ok" THEN [status |-> covered2.status]
        ELSE LET only_in_1_keys == (DOMAIN covered1.covered) \ (DOMAIN covered2.covered)
                 only_in_2_keys == (DOMAIN covered2.covered) \ (DOMAIN covered1.covered)
             IN  [status |-> "ok",
                  only_in_1 |-> Lookup(covered1.covered, SetIteration(seed, only_in_1_keys)),
                  only_in_2 |-> Lookup(covered2.covered, SetIteration(seed, only_in_2_keys))]

\* Edge records of the explored reports.
HitCounts == {-1, 0, 1}

WellFormedEdges ==
    {[hitCount |-> h, source |-> s, target |-> DT] : h \in HitCounts, s \in {DA, DAx, DB}}
    \cup {[source |-> s, target |-> DT] : s \in {DA, DAx, DB}}

MalformedEdges ==
    {[hitCount |-> h, source |-> DNoService, target |-> DT] : h \in {0, 1}}
    \cup {[hitCount |-> h, source |-> DA, target |-> DNoMethod] : h \in {0, 1}}
    \cup {[hitCount |-> 1, target |-> DT], [source |-> DNoService, target |-> DT]}

ReportOf(edges) == [finalCallInfoGraph |-> [edges |-> edges]]

NoEdgesReport == [finalCallInfoGraph |-> [nodes |-> << >>]]

LoadReports ==
    {ReportOf(es) : es \in SeqUpTo(WellFormedEdges \cup MalformedEdges, MaxEdges)}
    \cup {NoEdgesReport}

\* For compare_coverage: the covered records, the uncovered ones of one
\* identity (hitCount negative, zero, absent) and one malformed record.
CompareEdges ==
    {[hitCount |-> 1, source |-> s, target |-> DT] : s \in {DA, DAx, DB}}
    \cup {[hitCount |-> h, source |-> DA, target |-> DT] : h \in {-1, 0}}
    \cup {[source |-> DA, target |-> DT],
          [hitCount |-> 1, source |-> DNoService, target |-> DT]}

CompareReports(n) == {ReportOf(es) : es \in SeqUpTo(CompareEdges, n)}

\* The scripts the other specifications leave untouched.
IdleLog == logs = << >> /\ extracted = NotRun /\ mainOut = NotRun
IdleSisp == data = << >> /\ written = NotRun
IdleCompare ==
    /\ file2 = ReportOf(<< >>) /\ diff12 = NotCompared
    /\ diff21 = NotCompared /\ rerun12 = NotCompared

\* ---- load_edges on one report ----
InitLoad ==
    /\ file1 \in LoadReports
    /\ loaded = NotRun
    /\ IdleCompare /\ IdleLog /\ IdleSisp

LoadEdgesCall ==
    /\ loaded = NotRun
    /\ loaded' = LoadEdges(file1)
    /\ UNCHANGED <<file1, file2, diff12, diff21, rerun12,
                   logs, extracted, mainOut, data, written>>

NextLoad == LoadEdgesCall

SpecLoad == InitLoad /\ [][NextLoad]_vars

\* ---- compare_coverage on two reports ----
InitCompare ==
    /\ file1 \in CompareReports(MaxEdges)
    /\ file2 \in CompareReports(MaxEdges2)
    /\ loaded = NotRun
    /\ diff12 = NotCompared /\ diff21 = NotCompared /\ rerun12 = NotCompared
    /\ IdleLog /\ IdleSisp

\* python compare_callinfo_graph.py file1 file2, in a fresh process.
Compare ==
    /\ diff12 = NotCompared
    /\ \E seed \in HashSeeds :
          diff12' = [seed |-> seed, out |-> CompareCoverage(file1, file2, seed)]
    /\ UNCHANGED <<file1, file2, loaded, diff21, rerun12,
                   logs, extracted, mainOut, data, written>>

\* compare_coverage(file2, file1) called in the process that made the first call.
CompareSwapped ==
    /\ diff12 # NotCompared /\ diff21 = NotCompared
    /\ diff21' = [seed |-> diff12.seed,
                  out |-> CompareCoverage(file2, file1, diff12.seed)]
    /\ UNCHANGED <<file1, file2, loaded, diff12, rerun12,
                   logs, extracted, mainOut, data, written>>

\* The script run a second time on the same two files, in another process.
CompareAgain ==
    /\ diff21 # NotCompared /\ rerun12 = NotCompared
    /\ \E seed \in HashSeeds :
          rerun12' = [seed |-> seed, out |-> CompareCoverage(file1, file2, seed)]
    /\ UNCHANGED <<file1, file2, loaded, diff12, diff21,
                   logs, extracted, mainOut, data, written>>

NextCompare == LoadEdgesCall \/ Compare \/ CompareSwapped \/ CompareAgain

SpecCompare == InitCompare /\ [][NextCompare]_vars

(***************************************************************************)
(* test_process_visualize.py                                               *)
(*                                                                         *)
(* A log line is a sequence of segments; a segment is a piece of fixed     *)
(* text followed at once by a run of characters (its value), as in         *)
(* "UUID: " "ab-1".  The characters are one-character strings.             *)
(***************************************************************************)
Digits == {"0", "1", "2", "3", "4", "5", "6", "7", "8", "9"}

\* [a-f0-9\-] under re.IGNORECASE
UuidClass == Digits \cup {"a", "b", "c", "d", "e", "f", "A", "B", "C", "D", "E", "F", "-"}

\* [0-9\.]
CoverageClass == Digits \cup {"."}

\* The literals of the pattern of line 35.
MarkerText == "Finish execute current test scenario "
UuidLabel == "UUID: "
CountLabel == "Edge covered count: "
CoverageLabel == "Edge coverage: "
StatusLabel == "covered status code count: "

\* Case folding of the fixed texts that occur in the explored logs.
Fold(text) ==
    CASE text = "Finish execute current test scenario " -> "finish execute current test scenario "
      [] text = "FINISH EXECUTE CURRENT TEST SCENARIO " -> "finish execute current test scenario "
      [] text = "UUID: " -> "uuid: "
      [] text = "uuid: " -> "uuid: "
      [] text = "Edge covered count: " -> "edge covered count: "
      [] text = "Edge coverage: " -> "edge coverage: "
      [] text = "EDGE COVERAGE: " -> "edge coverage: "
      [] text = "covered status code count: " -> "covered status code count: "
      [] OTHER -> text

\* A greedy group ([class]+) applied at the start of a run of characters:
\* the longest prefix of characters of the class.
RECURSIVE ClassPrefix(_, _)
ClassPrefix(chars, class) ==
    IF chars = << >> \/ Head(chars) \notin class THEN << >>
    ELSE <<Head(chars)>> \o ClassPrefix(Tail(chars), class)

\* ".*?" label "(" class+ ")" tried from segment i on: the first segment
\* that carries the label and starts with a character of the class
\* (0 when there is none).
RECURSIVE FindField(_, _, _, _)
FindField(line, i, label, class) ==
    IF i > Len(line) THEN 0
    ELSE IF /\ Fold(line[i].text) = Fold(label)
            /\ ClassPrefix(line[i].value, class) # << >>
         THEN i
         ELSE FindField(line, i + 1, label, class)

\* The first segment that is the marker phrase (0 when there is none).
RECURSIVE FindMarker(_, _)
FindMarker(line, i) ==
    IF i > Len(line) THEN 0
    ELSE IF Fold(line[i].text) = Fold(MarkerText) THEN i
    ELSE FindMarker(line, i + 1)

\* pattern.search(log): whether the line matches and the four groups.
Search(line) ==
    LET m == FindMarker(line, 1)
        u == IF m = 0 THEN 0 ELSE FindField(line, m + 1, UuidLabel, UuidClass)
        c == IF u = 0 THEN 0 ELSE FindField(line, u + 1, CountLabel, Digits)
        v == IF c = 0 THEN 0 ELSE FindField(line, c + 1, CoverageLabel, CoverageClass)
        t == IF v = 0 THEN 0 ELSE FindField(line, v + 1, StatusLabel, Digits)
    IN  IF t = 0 THEN [matched |-> FALSE]
        ELSE [matched |-> TRUE,
              group1 |-> ClassPrefix(line[u].value, UuidClass),
              group2 |-> ClassPrefix(line[c].value, Digits),
              group3 |-> ClassPrefix(line[v].value, CoverageClass),
              group4 |-> ClassPrefix(line[t].value, Digits)]

DigitValue(ch) ==
    CASE ch = "0" -> 0 [] ch = "1" -> 1 [] ch = "2" -> 2 [] ch = "3" -> 3
      [] ch = "4" -> 4 [] ch = "5" -> 5 [] ch = "6" -> 6 [] ch = "7" -> 7
      [] ch = "8" -> 8 [] ch = "9" -> 9

\* int(s) for a run of digits, read left to right from the value acc.
RECURSIVE DigitsFrom(_, _)
DigitsFrom(chars, acc) ==
    IF chars = << >> THEN acc
    ELSE DigitsFrom(Tail(chars), 10 * acc + DigitValue(Head(chars)))

ParseInt(chars) == DigitsFrom(chars, 0)

IsDot(ch) == ch = "."
IsDigit(ch) == ch \in Digits

\* float(s) accepts a run over [0-9.] when it has at most one point and at
\* least one digit; it raises ValueError otherwise ("1.2.3", ".", "1..").
FloatParses(chars) ==
    /\ Len(SelectSeq(chars, IsDot)) <= 1
    /\ Len(SelectSeq(chars, IsDigit)) >= 1

\* Number of characters after the first point (0 when there is none).
RECURSIVE AfterPoint(_)
AfterPoint(chars) ==
    IF chars = << >> THEN 0
    ELSE IF Head(chars) = "." THEN Len(Tail(chars))
    ELSE AfterPoint(Tail(chars))

\* num / 10^places without trailing zeros in the fraction: 0.50 is 0.5.
RECURSIVE Reduce(_, _)
Reduce(num, places) ==
    IF places > 0 /\ num % 10 = 0 THEN Reduce(num \div 10, places - 1)
    ELSE [num |-> num, places |-> places]

\* The value of float(s): the decimal num / 10^places.
ParseFloat(chars) == Reduce(ParseInt(SelectSeq(chars, IsDigit)), AfterPoint(chars))

\* The loop of lines 40-47 from line i on.
RECURSIVE ExtractLoop(_, _, _)
ExtractLoop(lines, i, test_data) ==
    IF i > Len(lines) THEN [status |-> "ok", test_data |-> test_data]
    ELSE LET match == Search(lines[i])
         IN  IF ~match.matched THEN ExtractLoop(lines, i + 1, test_data)
             ELSE IF ~FloatParses(match.group3) THEN [status |-> "ValueError"]
             ELSE ExtractLoop(lines, i + 1,
                      Append(test_data, << match.group1, ParseInt(match.group2),
                                          ParseFloat(match.group3), ParseInt(match.group4) >>))

\* extract_test_scenarios(logs)
ExtractTestScenarios(lines) == ExtractLoop(lines, 1, << >>)

\* The series built at lines 53-56 of plot_graphs and drawn afterwards.
PlotGraphs(test_data) ==
    [x |-> [i \in 1..Len(test_data) |-> i],
     edge_covered_counts |-> [i \in 1..Len(test_data) |-> test_data[i][2]],
     edge_coverages |-> [i \in 1..Len(test_data) |-> test_data[i][3]],
     status_code_counts |-> [i \in 1..Len(test_data) |-> test_data[i][4]]]

\* Variant: main without the test of line 95.
MainUnguarded(lines) ==
    LET r == ExtractTestScenarios(lines)
    IN  IF r.status # "ok" THEN [status |-> r.status]
        ELSE [status |-> "ok", printed |-> "Graphs saved successfully.",
              plotted |-> PlotGraphs(r.test_data)]

\* main(log_file), lines being what read_logs returned.
Main(lines) ==
    LET r == ExtractTestScenarios(lines)
    IN  IF r.status # "ok" THEN [status |-> r.status]
        ELSE IF r.test_data # << >>
             THEN [status |-> "ok", printed |-> "Graphs saved successfully.",
                   plotted |-> PlotGraphs(r.test_data)]
             ELSE [status |-> "ok", printed |-> "No relevant logs found."]

\* Lines of the explored logs.
Seg(text, value) == [text |-> text, value |-> value]

Uuids == { <<"a", "b", "-", "1">>, <<"x", "y">> }
Coverages == { <<"0", ".", "7", "5">>, <<"1", ".", "2", ".", "3">>,
               <<"0", ".", "7", "5", ".">>, <<"n", "a">> }
Markers == {"Finish execute current test scenario ", "FINISH EXECUTE CURRENT TEST SCENARIO "}

FinishedLine(marker, uuid, count, coverage, status) ==
    << Seg("2025-01-01 INFO ", << >>), Seg(marker, << >>), Seg("UUID: ", uuid),
       Seg("Edge covered count: ", count), Seg("Edge coverage: ", coverage),
       Seg("covered status code count: ", status) >>

LogLines ==
    {FinishedLine(m, u, <<"4", "2">>, c, <<"5">>) : m \in Markers, u \in Uuids, c \in Coverages}
    \cup { << Seg(MarkerText, << >>), Seg("uuid: ", <<"F", "0", "0", "!">>),
              Seg("Edge covered count: ", <<"7", "x">>), Seg("EDGE COVERAGE: ", <<"1", ".">>),
              Seg("covered status code count: ", <<"1", "0">>) >>,
           << Seg("Start execute test scenario ", << >>), Seg("UUID: ", <<"a", "b", "-", "1">>) >>,
           << Seg(MarkerText, << >>), Seg("Edge covered count: ", <<"4", "2">>),
              Seg("UUID: ", <<"a", "b", "-", "1">>), Seg("Edge coverage: ", <<"0", ".", "5">>),
              Seg("covered status code count: ", <<"5">>) >> }

\* ---- the log script ----
InitLog ==
    /\ logs \in SeqUpTo(LogLines, MaxLines)
    /\ extracted = NotRun /\ mainOut = NotRun
    /\ file1 = ReportOf(<< >>) /\ loaded = NotRun
    /\ IdleCompare /\ IdleSisp

ExtractCall ==
    /\ extracted = NotRun
    /\ extracted' = ExtractTestScenarios(logs)
    /\ UNCHANGED <<file1, file2, loaded, diff12, diff21, rerun12,
                   logs, mainOut, data, written>>

MainCall ==
    /\ mainOut = NotRun
    /\ mainOut' = Main(logs)
    /\ UNCHANGED <<file1, file2, loaded, diff12, diff21, rerun12,
                   logs, extracted, data, written>>

NextLog == ExtractCall \/ MainCall

SpecLog == InitLog /\ [][NextLog]_vars

(***************************************************************************)
(* CoSREST/convert_sisp_to_dict.py                                         *)
(***************************************************************************)
\* Python's None (what dict.get returns for a missing key).
PyNone == "None"

\* entry.get('param_name'), valid.get('category')
GetOrNone(d, key) == IF key \in DOMAIN d THEN d[key] ELSE PyNone

\* entry.get('valid', []), valid.get('samples', [])
GetOrEmpty(d, key) == IF key \in DOMAIN d THEN d[key] ELSE << >>

Item(name, value) == [name |-> name, value |-> value]

\* Variant: the category is marked as seen before the samples are looked at.
RECURSIVE ValidLoopMarkFirst(_, _, _, _, _)
ValidLoopMarkFirst(valid_entries, j, param_name, seen_categories, output) ==
    IF j > Len(valid_entries) THEN output
    ELSE LET category == GetOrNone(valid_entries[j], "category")
             samples == GetOrEmpty(valid_entries[j], "samples")
         IN  IF category \notin seen_categories
             THEN ValidLoopMarkFirst(valid_entries, j + 1, param_name,
                                     seen_categories \cup {category},
                                     IF samples # << >>
                                     THEN Append(output, Item(param_name, samples[1]))
                                     ELSE output)
             ELSE ValidLoopMarkFirst(valid_entries, j + 1, param_name,
                                     seen_categories, output)

\* The inner loop of lines 47-56 from definition j on.
RECURSIVE ValidLoop(_, _, _, _, _)
ValidLoop(valid_entries, j, param_name, seen_categories, output) ==
    IF j > Len(valid_entries) THEN output
    ELSE LET category == GetOrNone(valid_entries[j], "category")
             samples == GetOrEmpty(valid_entries[j], "samples")
         IN  IF category \notin seen_categories /\ samples # << >>
             THEN ValidLoop(valid_entries, j + 1, param_name,
                            seen_categories \cup {category},
                            Append(output, Item(param_name, samples[1])))
             ELSE ValidLoop(valid_entries, j + 1, param_name, seen_categories, output)

\* The outer loop of lines 42-56 from entry i on.
RECURSIVE EntryLoop(_, _, _)
EntryLoop(entries, i, output) ==
    IF i > Len(entries) THEN output
    ELSE EntryLoop(entries, i + 1,
                   ValidLoop(GetOrEmpty(entries[i], "valid"), 1,
                             GetOrNone(entries[i], "param_name"), {}, output))

\* Code-point order of the parameter names of the explored inputs.
NameRank(name) == CASE name = "orderId" -> 1 [] name = "userId" -> 2

NameLess(a, b) == NameRank(a) < NameRank(b)

\* x put into a list sorted by name, after the items that are not greater.
RECURSIVE InsertByName(_, _)
InsertByName(sorted, x) ==
    IF sorted = << >> THEN <<x>>
    ELSE IF NameLess(x.name, Head(sorted).name) THEN <<x>> \o sorted
    ELSE <<Head(sorted)>> \o InsertByName(Tail(sorted), x)

RECURSIVE SortFrom(_, _, _)
SortFrom(output, i, sorted) ==
    IF i > Len(output) THEN sorted
    ELSE SortFrom(output, i + 1, InsertByName(sorted, output[i]))

\* sorted(output, key=lambda x: x['name']): a stable sort; comparing None
\* with a name or with None raises TypeError.
SortedByName(output) ==
    IF Len(output) >= 2 /\ \E i \in DOMAIN output : output[i].name = PyNone
    THEN [status |-> "TypeError"]
    ELSE [status |-> "ok", output |-> SortFrom(output, 1, << >>)]

\* extract_valid_samples: what is written to the output file.
ExtractValidSamples(entries) == SortedByName(EntryLoop(entries, 1, << >>))

\* Valid-sample definitions and entries of the explored inputs.
ValidDefs ==
    { [category |-> "c1", samples |-> << >>],
      [category |-> "c1"],
      [category |-> "c1", samples |-> <<"s1">>],
      [category |-> "c1", samples |-> <<"s2", "s1">>],
      [samples |-> <<"s1">>] }

\* How an entry of the explored inputs is keyed: with one of two parameter
\* names, without param_name, or without the valid list.
EntryKinds == {"orderId", "userId", "no_param_name", "no_valid"}

\* An entry of the given kind with the given valid-sample definitions.
Entry(kind, valid) ==
    CASE kind = "no_param_name" -> [valid |-> valid]
      [] kind = "no_valid" -> [param_name |-> "userId", invalid |-> << >>]
      [] OTHER -> [param_name |-> kind, valid |-> valid]

RECURSIVE SumUpTo(_, _)
SumUpTo(counts, i) == IF i = 0 THEN 0 ELSE counts[i] + SumUpTo(counts, i - 1)

\* The input list whose i-th entry is of kind kinds[i] and holds counts[i]
\* definitions, taken in order from the list defs.
DataOf(kinds, counts, defs) ==
    [i \in DOMAIN kinds |->
        Entry(kinds[i], SubSeq(defs, SumUpTo(counts, i - 1) + 1, SumUpTo(counts, i)))]

InitSisp ==
    /\ \E n \in 0..MaxEntries :
          \E counts \in [1..n -> 0..MaxDefs] :
             /\ SumUpTo(counts, n) <= MaxDefs
             /\ \E kinds \in [1..n -> EntryKinds] :
                   /\ \A i \in 1..n : kinds[i] = "no_valid" => counts[i] = 0
                   /\ \E defs \in [1..SumUpTo(counts, n) -> ValidDefs] :
                         data = DataOf(kinds, counts, defs)
    /\ written = NotRun
    /\ file1 = ReportOf(<< >>) /\ loaded = NotRun
    /\ IdleCompare /\ IdleLog

ExtractValidSamplesCall ==
    /\ written = NotRun
    /\ written' = ExtractValidSamples(data)
    /\ UNCHANGED <<file1, file2, loaded, diff12, diff21, rerun12,
                   logs, extracted, mainOut, data>>

NextSisp == ExtractValidSamplesCall

SpecSisp == InitSisp /\ [][NextSisp]_vars

(***************************************************************************)
(* Properties of compare_callinfo_graph.py                                 *)
(***************************************************************************)
\* The edge records of a report that has the edges list (else none).
EdgesOf(report) ==
    IF "finalCallInfoGraph" \in DOMAIN report /\ "edges" \in DOMAIN report.finalCallInfoGraph
    THEN report.finalCallInfoGraph.edges ELSE << >>

\* Positions of the records of a report with hitCount > 0 and all six fields.
CoveredAt(report) ==
    {i \in DOMAIN EdgesOf(report) :
        HitCountOf(EdgesOf(report)[i]) > 0 /\ HasIdentity(EdgesOf(report)[i])}

\* Positions of the well-formed records with hitCount <= 0 or absent.
UncoveredAt(report) ==
    {i \in DOMAIN EdgesOf(report) :
        HitCountOf(EdgesOf(report)[i]) <= 0 /\ HasIdentity(EdgesOf(report)[i])}

\* Keys of the records at the given positions.
KeysAt(report, I) == {EdgeKey(EdgesOf(report)[i]) : i \in I}

\* d is the detail of a record of the report with hitCount > 0.
FromCovered(report, d) ==
    \E i \in CoveredAt(report) : EdgeDetail(EdgesOf(report)[i]) = d

\* A record of the report with hitCount <= 0 whose key no covered record has.
OnlyUncovered(report) ==
    {i \in UncoveredAt(report) :
        EdgeKey(EdgesOf(report)[i]) \notin KeysAt(report, CoveredAt(report))}

\* The six-field key of a stored detail.
DetailKey(d) == EdgeKey(d)

ListKeys(l) == {DetailKey(l[j]) : j \in DOMAIN l}

\* C1: a record with hitCount 0, negative or absent is not inserted into the
\* snapshot (its key is absent unless a covered record has the same key, and
\* every stored detail is that of a covered record), and every detail in
\* only_in_file1 / only_in_file2 is that of a covered record of that file.
C1_HitCountFiltering ==
    /\ loaded.status = "ok" =>
          /\ \A i \in OnlyUncovered(file1) :
                EdgeKey(EdgesOf(file1)[i]) \notin DOMAIN loaded.covered
          /\ \A k \in DOMAIN loaded.covered : FromCovered(file1, loaded.covered[k])
    /\ diff12.out.status = "ok" =>
          /\ \A j \in DOMAIN diff12.out.only_in_1 :
                FromCovered(file1, diff12.out.only_in_1[j])
          /\ \A j \in DOMAIN diff12.out.only_in_2 :
                FromCovered(file2, diff12.out.only_in_2[j])
          /\ \A i \in OnlyUncovered(file1) :
                EdgeKey(EdgesOf(file1)[i]) \notin ListKeys(diff12.out.only_in_1)
          /\ \A i \in OnlyUncovered(file2) :
                EdgeKey(EdgesOf(file2)[i]) \notin ListKeys(diff12.out.only_in_2)

\* A report with an uncovered-only record and a covered one was loaded and compared.
C1_Witness ==
    /\ loaded.status = "ok" /\ diff12.out.status = "ok"
    /\ OnlyUncovered(file1) # {}
    /\ Len(diff12.out.only_in_1) > 0

\* C2: only_in_1 holds exactly one detail A[k] per key k of A \ B, only_in_2
\* one detail B[k] per key of B \ A; a key in both snapshots is in neither
\* list whatever the details; the three key sets partition keys(A) \cup keys(B).
C2_SetDifference ==
    diff12.out.status = "ok" =>
        LET A == LoadEdges(file1).covered
            B == LoadEdges(file2).covered
            l1 == diff12.out.only_in_1
            l2 == diff12.out.only_in_2
            both == (DOMAIN A) \cap (DOMAIN B)
        IN  /\ Len(l1) = Cardinality((DOMAIN A) \ (DOMAIN B))
            /\ Len(l2) = Cardinality((DOMAIN B) \ (DOMAIN A))
            /\ \A k \in (DOMAIN A) \ (DOMAIN B) :
                  Cardinality({j \in DOMAIN l1 : l1[j] = A[k]}) = 1
            /\ \A k \in (DOMAIN B) \ (DOMAIN A) :
                  Cardinality({j \in DOMAIN l2 : l2[j] = B[k]}) = 1
            /\ ListKeys(l1) \cap ListKeys(l2) = {}
            /\ ListKeys(l1) \cap both = {}
            /\ ListKeys(l2) \cap both = {}
            /\ ListKeys(l1) \cup ListKeys(l2) \cup both = (DOMAIN A) \cup (DOMAIN B)

\* Both snapshots hold one key with different details, and another key is only in A.
C2_Witness ==
    /\ diff12.out.status = "ok"
    /\ Len(diff12.out.only_in_1) > 0
    /\ \E k \in (DOMAIN LoadEdges(file1).covered) \cap (DOMAIN LoadEdges(file2).covered) :
          LoadEdges(file1).covered[k] # LoadEdges(file2).covered[k]

\* C3: two runs of compare_coverage on the same two reports return the same
\* lists in the same element order.
C3_SameOrderEveryRun ==
    (diff12.out.status = "ok" /\ rerun12.out.status = "ok") =>
        /\ diff12.out.only_in_1 = rerun12.out.only_in_1
        /\ diff12.out.only_in_2 = rerun12.out.only_in_2

\* C4: swapping the arguments swaps the two results.
C4_SwapSymmetry ==
    (diff12.out.status # "not_run" /\ diff21.out.status # "not_run") =>
        /\ diff12.out.status = diff21.out.status
        /\ diff12.out.status = "ok" =>
              /\ diff12.out.only_in_1 = diff21.out.only_in_2
              /\ diff12.out.only_in_2 = diff21.out.only_in_1

\* Both calls were made, on snapshots that share a key and differ in the others.
C4_Witness ==
    /\ diff12.out.status = "ok" /\ diff21.out.status = "ok"
    /\ Len(diff12.out.only_in_1) > 0
    /\ (DOMAIN LoadEdges(file1).covered) \cap (DOMAIN LoadEdges(file2).covered) # {}

\* The last position in the report of a covered record with key k.
LastCoveredAt(report, k) ==
    CHOOSE i \in CoveredAt(report) :
        /\ EdgeKey(EdgesOf(report)[i]) = k
        /\ \A j \in CoveredAt(report) : EdgeKey(EdgesOf(report)[j]) = k => j <= i

\* C5: the snapshot maps each key to the detail of the last record in list
\* order that has this key and hitCount > 0; records with hitCount <= 0 or
\* absent neither overwrite nor remove an entry.
C5_LastCoveredWins ==
    loaded.status = "ok" =>
        /\ DOMAIN loaded.covered = KeysAt(file1, CoveredAt(file1))
        /\ \A k \in DOMAIN loaded.covered :
              loaded.covered[k] = EdgeDetail(EdgesOf(file1)[LastCoveredAt(file1, k)])

\* One key occurred in two covered records with different details.
C5_Witness ==
    /\ loaded.status = "ok"
    /\ \E i, j \in CoveredAt(file1) :
          /\ i < j
          /\ EdgeKey(EdgesOf(file1)[i]) = EdgeKey(EdgesOf(file1)[j])
          /\ EdgeDetail(EdgesOf(file1)[i]) # EdgeDetail(EdgesOf(file1)[j])

\* The records whose identity fields line 42-48 would fail to read.
BrokenCoveredAt(report) ==
    {i \in DOMAIN EdgesOf(report) :
        HitCountOf(EdgesOf(report)[i]) > 0 /\ ~HasIdentity(EdgesOf(report)[i])}

BrokenUncoveredAt(report) ==
    {i \in DOMAIN EdgesOf(report) :
        HitCountOf(EdgesOf(report)[i]) <= 0 /\ ~HasIdentity(EdgesOf(report)[i])}

\* C8: a report that has the edges list loads without error unless a record
\* with hitCount > 0 lacks an identity field (records with hitCount <= 0 or
\* absent never make it fail); when one does, the load fails and returns no
\* snapshot.
C8_FieldErrors ==
    (loaded.status # "not_run" /\ file1 # NoEdgesReport) =>
        /\ loaded.status = "ok" <=> BrokenCoveredAt(file1) = {}
        /\ loaded.status # "ok" =>
              loaded.status = "KeyError" /\ "covered" \notin DOMAIN loaded

\* A report with a malformed uncovered record and a covered record loaded.
C8_Witness ==
    /\ loaded.status = "ok"
    /\ BrokenUncoveredAt(file1) # {}
    /\ DOMAIN loaded.covered # {}

(***************************************************************************)
(* Properties of test_process_visualize.py                                 *)
(***************************************************************************)
\* Positions of the lines the pattern matches.
MatchingAt(lines) == {i \in DOMAIN lines : Search(lines[i]).matched}

\* Positions of the matching lines whose numbers all parse.
ParsableAt(lines) == {i \in MatchingAt(lines) : FloatParses(Search(lines[i]).group3)}

\* The j-th smallest element of a set of positions.
Nth(I, j) == CHOOSE i \in I : Cardinality({m \in I : m <= i}) = j

\* The record line 47 builds from a line.
RecordOf(line) ==
    << Search(line).group1, ParseInt(Search(line).group2),
       ParseFloat(Search(line).group3), ParseInt(Search(line).group4) >>

\* C6: extract_test_scenarios returns one record per matching line, in the
\* order of those lines, whatever the log holds.
C6_OneRecordPerMatchingLine ==
    extracted.status # "not_run" =>
        /\ extracted.status = "ok"
        /\ Len(extracted.test_data) = Cardinality(MatchingAt(logs))
        /\ \A j \in DOMAIN extracted.test_data :
              extracted.test_data[j][1] = Search(logs[Nth(MatchingAt(logs), j)]).group1

\* C7: a matching line whose coverage text is not a number is skipped, and
\* the records of all the other matching lines are returned.
C7_UnparsableLineSkipped ==
    extracted.status # "not_run" =>
        /\ extracted.status = "ok"
        /\ Len(extracted.test_data) = Cardinality(ParsableAt(logs))
        /\ \A j \in DOMAIN extracted.test_data :
              extracted.test_data[j] = RecordOf(logs[Nth(ParsableAt(logs), j)])

\* C9: main on a log without scenario records reports that there is no data
\* and plots nothing; what it plots has at least one point.
C9_NoSilentEmptySeries ==
    mainOut.status = "ok" =>
        /\ MatchingAt(logs) = {} =>
              /\ mainOut.printed = "No relevant logs found."
              /\ "plotted" \notin DOMAIN mainOut
        /\ "plotted" \in DOMAIN mainOut =>
              /\ Len(mainOut.plotted.x) >= 1
              /\ Len(mainOut.plotted.edge_covered_counts) = Len(mainOut.plotted.x)
              /\ Len(mainOut.plotted.edge_coverages) = Len(mainOut.plotted.x)
              /\ Len(mainOut.plotted.status_code_counts) = Len(mainOut.plotted.x)

\* main ran on a non-empty log none of whose lines is a scenario record.
C9_Witness ==
    /\ mainOut.status = "ok"
    /\ Len(logs) > 0
    /\ MatchingAt(logs) = {}
    /\ mainOut.printed = "No relevant logs found."

(***************************************************************************)
(* Properties of convert_sisp_to_dict.py                                   *)
(***************************************************************************)
ValidOf(entry) == IF "valid" \in DOMAIN entry THEN entry.valid ELSE << >>
CategoryOf(def) == IF "category" \in DOMAIN def THEN def.category ELSE PyNone
SamplesOf(def) == IF "samples" \in DOMAIN def THEN def.samples ELSE << >>

\* Positions in an entry of the definitions of a category that have a sample.
WithSamplesAt(entry, category) ==
    {j \in DOMAIN ValidOf(entry) :
        CategoryOf(ValidOf(entry)[j]) = category /\ SamplesOf(ValidOf(entry)[j]) # << >>}

\* The categories of the explored inputs (None for a missing category).
Categories == {"c1", PyNone}

\* The (entry, category) pairs that have a definition with a sample.
Origins(entries) ==
    {o \in (DOMAIN entries) \X Categories : WithSamplesAt(entries[o[1]], o[2]) # {}}

Least(I) == CHOOSE i \in I : \A j \in I : i <= j

\* The item an (entry, category) pair is to contribute.
FirstItem(entries, o) ==
    [name |-> IF "param_name" \in DOMAIN entries[o[1]]
              THEN entries[o[1]].param_name ELSE PyNone,
     value |-> SamplesOf(ValidOf(entries[o[1]])[Least(WithSamplesAt(entries[o[1]], o[2]))])[1]]

Occurrences(list, x) == Cardinality({j \in DOMAIN list : list[j] = x})

\* C10: the output holds, for every entry and every category of that entry
\* that has a definition with samples, exactly one item, whose value is
\* samples[0] of the first such definition; it holds nothing else.
C10_FirstPerCategory ==
    written.status = "ok" =>
        /\ Len(written.output) = Cardinality(Origins(data))
        /\ \A o \in Origins(data) :
              Occurrences(written.output, FirstItem(data, o)) =
                 Cardinality({q \in Origins(data) : FirstItem(data, q) = FirstItem(data, o)})

\* A category repeats in one entry with different first samples, after a
\* definition of that category without samples.
C10_Witness ==
    /\ written.status = "ok"
    /\ \E i \in DOMAIN data :
          \E j, k \in WithSamplesAt(data[i], "c1") :
             /\ j < k
             /\ SamplesOf(ValidOf(data[i])[j])[1] # SamplesOf(ValidOf(data[i])[k])[1]
             /\ \E m \in DOMAIN ValidOf(data[i]) :
                   /\ m < j
                   /\ CategoryOf(ValidOf(data[i])[m]) = "c1"
                   /\ SamplesOf(ValidOf(data[i])[m]) = << >>

====
